---- MODULE Spec2Model ----
(***************************************************************************)
(* Call orchestration of the SIP test phone: Phone (qa_voip_py/phone.py)   *)
(* owns the registry `calls` and the dispatcher `_callback`; _Call         *)
(* (voip_sttest/_implement_call.py) owns one call's state.                 *)
(*                                                                         *)
(* Two threads run the code: "disp", the signaling receiver that invokes   *)
(* Phone._callback for one message at a time, and "caller", the test code  *)
(* that invokes Phone/_Call operations.  Every access to a field the two   *)
(* threads share (call_data['state'], call_data['stop_reason'], the        *)
(* registry) is a step of its own, so the threads interleave between them. *)
(***************************************************************************)
EXTENDS Integers, Sequences, FiniteSets, TLC

\* ------------------------------------------------------------------ bounds
MaxCalls == 2      \* _Call instances Phone.call may create
MaxEvents == 3     \* signaling messages the receiver delivers
MaxOps == 3        \* operations the test code starts
MaxFairCalls == 1  \* calls placed in the runs checked for termination
MaxFairOps == 2    \* operations started in the runs checked for termination

\* --------------------------------------------------------------- constants
LookupWait == 2    \* try_wait(..., wait_time=2) in Phone._callback
StopWait == 5      \* try_wait(..., wait_time=5) in _Call._stop
AnsweredWait == 2  \* try_wait's default wait_time, used by _check_leg_A_answered

Calls == 1..MaxCalls          \* the _Call instances, in order of creation
CallIds == 1..MaxCalls        \* the Call-ID header values
NoCall == 0

Threads == {"caller", "disp"}

CallState == {"NONE", "TRYING", "ANSWERED", "ENDED"}
CallStopReason == {"UNSET", "SIP_ERROR", "BYE_FROM_PBX", "BYE_FROM_LOCAL"}
PhoneStatus == {"NONE", "REGISTERING", "REGISTERED", "DEREGISTER", "INACTIVE"}

\* request.type / request.method / request.status as Phone._callback tests them
Statuses == {"TRYING", "OK", "NOT_FOUND", "SERVICE_UNAVAILABLE", "UNAUTHORIZED",
             "PROXY_AUTHENTICATION_REQUIRED", "OTHER_STATUS"}
Methods == {"BYE", "OTHER_METHOD"}
CSeqMethods == {"INVITE", "BYE", "OTHER"}
NoEvent == [id |-> 0, type |-> "NONE", what |-> "NONE", cseq |-> "NONE"]
SIPMessage ==
    [id : CallIds, type : {"RESPONSE"}, what : {"OK"}, cseq : CSeqMethods]
    \cup [id : CallIds, type : {"RESPONSE"}, what : Statuses \ {"OK"}, cseq : {"INVITE"}]
    \cup [id : CallIds, type : {"MESSAGE"}, what : Methods, cseq : {"NONE"}]

MediaOps == {"send_audio", "send_dtmf", "listen"}

Tags == {"on_trying", "on_ok_invite", "on_ok_bye", "on_ok_other", "on_unauthorized",
         "on_not_found", "on_unavailable", "on_bye",
         "send_invite", "send_ack", "send_bye", "send_ok",
         "media_connect", "media_stop", "send_audio", "send_dtmf", "listen",
         "ok_repeat", "ok_raise", "hangup_ret"}

VARIABLES
    call_id,      \* call_data['call_id'] of each instance, NoCall before _new_call
    state,        \* call_data['state'] ("NONE" is Python's None)
    stop_reason,  \* call_data['stop_reason'] ("UNSET": the key is absent)
    auth_sent,    \* call_data['auth_sent']
    calls,        \* Phone.calls: Call-ID -> instance, NoCall when absent
    status,       \* Phone._status
    ncalls,       \* number of _Call instances created so far
    log,          \* per call, how many times: each kind of message was given to
                  \* its handler ("on_..."), each call was made to sip_manager
                  \* and to its media_wrapper, and _hangup returned
    pc,           \* position of each thread
    cur,          \* the call a thread is operating on
    elapsed,      \* time a thread has spent in its current try_wait
    err,          \* how the thread's last operation ended ("none": no exception)
    ev,           \* the message Phone._callback is handling
    op,           \* the operation the caller is in, or was in last
    todo,         \* Call-IDs Phone.hangup / Phone.stop still pass to _stop_call
    nevents,      \* messages delivered so far
    nops          \* operations started so far

vars == <<call_id, state, stop_reason, auth_sent, calls, status, ncalls, log, pc,
          cur, elapsed, err, ev, op, todo, nevents, nops>>

callVars == <<call_id, state, stop_reason, auth_sent, log>>
phoneVars == <<calls, status, ncalls>>
callerVars == <<op, todo, nops>>

Init ==
    /\ call_id = [c \in Calls |-> NoCall]
    /\ state = [c \in Calls |-> "NONE"]
    /\ stop_reason = [c \in Calls |-> "UNSET"]
    /\ auth_sent = [c \in Calls |-> FALSE]
    /\ calls = [i \in CallIds |-> NoCall]
    /\ status = "NONE"
    /\ ncalls = 0
    /\ log = [c \in Calls |-> [g \in Tags |-> 0]]
    /\ pc = [t \in Threads |-> "idle"]
    /\ cur = [t \in Threads |-> NoCall]
    /\ elapsed = [t \in Threads |-> 0]
    /\ err = [t \in Threads |-> "none"]
    /\ ev = NoEvent
    /\ op = "none"
    /\ todo = <<>>
    /\ nevents = 0
    /\ nops = 0

\* ----------------------------------------------------------------- the log
RECURSIVE CountIn(_, _)
CountIn(seq, tag) ==
    IF seq = <<>> THEN 0
    ELSE (IF Head(seq) = tag THEN 1 ELSE 0) + CountIn(Tail(seq), tag)

Logged(c, tags) == [log EXCEPT ![c] = [g \in Tags |-> @[g] + CountIn(tags, g)]]

Count(c, tag) == log[c][tag]
Has(c, tag) == log[c][tag] > 0
\* a step logged the tag for call c
Adds(c, tag) == log'[c][tag] > log[c][tag]

\* ------------------------------------------------------------ try_wait
\* helpers/waiter.py: poll the condition until it holds or wait_time has passed.
WaitPcs == {"lookup", "stop_wait", "leg_wait"}

wait_time(t) ==
    CASE pc[t] = "lookup" -> LookupWait
      [] pc[t] = "stop_wait" -> StopWait
      [] pc[t] = "leg_wait" -> AnsweredWait
      [] OTHER -> 0

try_wait_expired(t, cond) == ~cond /\ elapsed[t] >= wait_time(t)

\* The clock: one time unit passes for every thread that is inside a try_wait.
Tick ==
    /\ \E t \in Threads : pc[t] \in WaitPcs /\ elapsed[t] < wait_time(t)
    /\ elapsed' = [t \in Threads |->
                     IF pc[t] \in WaitPcs /\ elapsed[t] < wait_time(t)
                     THEN elapsed[t] + 1 ELSE elapsed[t]]
    /\ UNCHANGED <<callVars, phoneVars, callerVars, pc, cur, err, ev, nevents>>

\* A thread moves on inside its operation.
Goto(t, p) ==
    /\ pc' = [pc EXCEPT ![t] = p]
    /\ elapsed' = [elapsed EXCEPT ![t] = 0]
    /\ UNCHANGED <<cur, err, ev>>

\* A thread's operation ends: by return (e = "none") or by the exception e.
Finish(t, e) ==
    /\ pc' = [pc EXCEPT ![t] = "idle"]
    /\ elapsed' = [elapsed EXCEPT ![t] = 0]
    /\ err' = [err EXCEPT ![t] = e]
    /\ ev' = IF t = "disp" THEN NoEvent ELSE ev
    /\ cur' = IF t = "disp" THEN [cur EXCEPT ![t] = NoCall] ELSE cur

\* Where a thread continues when _Call._stop returns: the handlers that call it
\* return to Phone._callback; _hangup returns to its caller, which is
\* Phone._stop_call (line 132) or the test code.
AfterStop(t) ==
    IF t = "caller" /\ op \in {"hangup", "stop"} THEN "del" ELSE "idle"

Return(t) ==
    IF AfterStop(t) = "idle" THEN Finish(t, "none") ELSE Goto(t, AfterStop(t))

\* _hangup runs on the caller's thread only: its return is logged.
RetTag(t) == IF t = "caller" THEN <<"hangup_ret">> ELSE <<>>

\* The test code starts an operation on call c (NoCall: on the phone).
Begin(o, c, p) ==
    /\ pc["caller"] = "idle"
    /\ nops < MaxOps
    /\ nops' = nops + 1
    /\ op' = o
    /\ pc' = [pc EXCEPT !["caller"] = p]
    /\ cur' = [cur EXCEPT !["caller"] = c]
    /\ err' = [err EXCEPT !["caller"] = "none"]
    /\ UNCHANGED <<elapsed, ev>>

\* =================================================================== _Call
c_of(t) == cur[t]

\* _Call._stop, line 68: `if state and state != ENDED`.
stop_needed(s) == s # "NONE" /\ s # "ENDED"

\* _Call._stop, line 68: otherwise fall through and return.
stop_check_state(t) ==
    /\ pc[t] = "stop_s1"
    /\ IF stop_needed(state[c_of(t)])
       THEN /\ Goto(t, "stop_s2")
            /\ log' = log
       ELSE /\ Return(t)
            /\ log' = Logged(c_of(t), RetTag(t))
    /\ UNCHANGED <<call_id, state, stop_reason, auth_sent, phoneVars, callerVars,
                   nevents>>

\* _Call._stop, line 69: `if stop_reason == BYE_FROM_PBX`.
stop_check_reason(t) ==
    /\ pc[t] = "stop_s2"
    /\ Goto(t, IF stop_reason[c_of(t)] = "BYE_FROM_PBX" THEN "stop_pbx" ELSE "stop_s3")
    /\ UNCHANGED <<callVars, phoneVars, callerVars, nevents>>

\* _Call._stop, lines 70-73: BYE from the PBX: stop the media, state ENDED.
stop_by_pbx(t) ==
    /\ pc[t] = "stop_pbx"
    /\ state' = [state EXCEPT ![c_of(t)] = "ENDED"]
    /\ log' = Logged(c_of(t), <<"media_stop">> \o RetTag(t))
    /\ Return(t)
    /\ UNCHANGED <<call_id, stop_reason, auth_sent, phoneVars, callerVars, nevents>>

\* _Call._stop, line 74: the states from which a BYE is sent.
sends_bye(s) == s \in {"TRYING", "ANSWERED"}

\* _Call._stop, lines 74-75 and 89-90: from TRYING or ANSWERED send BYE and start
\* waiting for ENDED; from any other state raise RuntimeError.
stop_send_bye(t) ==
    /\ pc[t] = "stop_s3"
    /\ IF sends_bye(state[c_of(t)])
       THEN /\ log' = Logged(c_of(t), <<"send_bye">>)
            /\ Goto(t, "stop_wait")
       ELSE /\ Finish(t, "InvalidTeardownStateError")
            /\ log' = log
    /\ UNCHANGED <<call_id, state, stop_reason, auth_sent, phoneVars, callerVars,
                   nevents>>

\* _Call._stop, lines 76-82: the poll of try_wait sees state == ENDED.
stop_wait_ended(t) ==
    /\ pc[t] = "stop_wait"
    /\ state[c_of(t)] = "ENDED"
    /\ Goto(t, "stop_after")
    /\ UNCHANGED <<callVars, phoneVars, callerVars, nevents>>

\* stop_wait_timeout for a try_wait without a deadline: the poll never gives up.
stop_wait_unbounded(t) ==
    /\ pc[t] = "stop_wait"
    /\ FALSE
    /\ UNCHANGED vars

\* _Call._stop, lines 76-82: wait_time passed without ENDED, try_wait raises.
stop_wait_timeout(t) ==
    /\ pc[t] = "stop_wait"
    /\ try_wait_expired(t, state[c_of(t)] = "ENDED")
    /\ Finish(t, "TeardownTimeoutError")
    /\ UNCHANGED <<callVars, phoneVars, callerVars, nevents>>

\* _Call._stop, lines 83-88: stop the media, then insist on BYE_FROM_LOCAL.
stop_after_bye(t) ==
    /\ pc[t] = "stop_after"
    /\ IF stop_reason[c_of(t)] # "BYE_FROM_LOCAL"
       THEN /\ Finish(t, "StopReasonError")
            /\ log' = Logged(c_of(t), <<"media_stop">>)
       ELSE /\ Return(t)
            /\ log' = Logged(c_of(t), <<"media_stop">> \o RetTag(t))
    /\ UNCHANGED <<call_id, state, stop_reason, auth_sent, phoneVars, callerVars,
                   nevents>>

\* _Call._hangup, line 160: `if state != ENDED`.
hangup_needed(s) == s # "ENDED"

hangup_check_state(t) ==
    /\ pc[t] = "hangup_h1"
    /\ IF hangup_needed(state[c_of(t)])
       THEN /\ Goto(t, "hangup_h2")
            /\ log' = log
       ELSE /\ Return(t)
            /\ log' = Logged(c_of(t), RetTag(t))
    /\ UNCHANGED <<call_id, state, stop_reason, auth_sent, phoneVars, callerVars,
                   nevents>>

\* _Call._hangup, lines 161-162: stop_reason = BYE_FROM_LOCAL, then _stop().
hangup_set_reason(t) ==
    /\ pc[t] = "hangup_h2"
    /\ stop_reason' = [stop_reason EXCEPT ![c_of(t)] = "BYE_FROM_LOCAL"]
    /\ Goto(t, "stop_s1")
    /\ UNCHANGED <<call_id, state, auth_sent, log, phoneVars, callerVars, nevents>>

\* _Call._handle_trying: self._set_state(TRYING), whatever the state was.
trying_state(s) == "TRYING"

handle_trying ==
    /\ pc["disp"] = "route"
    /\ ev.type = "RESPONSE" /\ ev.what = "TRYING"
    /\ state' = [state EXCEPT ![c_of("disp")] = trying_state(@)]
    /\ log' = Logged(c_of("disp"), <<"on_trying">>)
    /\ Finish("disp", "none")
    /\ UNCHANGED <<call_id, stop_reason, auth_sent, phoneVars, callerVars, nevents>>

\* handle_OK_branch with a call still in Dialing accepted as answered (the error
\* message of line 142 names DIALING among the expected states).
handle_OK_branch_dialing(s, cseq) ==
    IF s \in {"NONE", "TRYING"} THEN "ok_answer"
    ELSE IF s = "ANSWERED" /\ cseq = "BYE" THEN "ok_ended"
    ELSE IF s = "ANSWERED" /\ cseq = "INVITE" THEN "ok_repeat"
    ELSE "ok_raise"

\* _Call._handle_OK, lines 131-142: the branch the if/elif chain takes.
handle_OK_branch(s, cseq) ==
    IF s = "TRYING" THEN "ok_answer"
    ELSE IF s = "ANSWERED" /\ cseq = "BYE" THEN "ok_ended"
    ELSE IF s = "ANSWERED" /\ cseq = "INVITE" THEN "ok_repeat"
    ELSE "ok_raise"

ok_tag(cseq) ==
    CASE cseq = "INVITE" -> "on_ok_invite"
      [] cseq = "BYE" -> "on_ok_bye"
      [] OTHER -> "on_ok_other"

\* _Call._handle_OK, lines 141-142: the warning and the exception are outputs.
branch_tag(b) == IF b \in {"ok_repeat", "ok_raise"} THEN <<b>> ELSE <<>>

handle_OK ==
    /\ pc["disp"] = "route"
    /\ ev.type = "RESPONSE" /\ ev.what = "OK"
    /\ LET b == handle_OK_branch(state[c_of("disp")], ev.cseq) IN
         CASE b \in {"ok_answer", "ok_ended"} -> Goto("disp", b)
           [] b = "ok_repeat" -> Finish("disp", "none")
           [] OTHER -> Finish("disp", "ProtocolSequenceError")
    /\ log' = Logged(c_of("disp"),
                     <<ok_tag(ev.cseq)>>
                       \o branch_tag(handle_OK_branch(state[c_of("disp")], ev.cseq)))
    /\ UNCHANGED <<call_id, state, stop_reason, auth_sent, phoneVars, callerVars,
                   nevents>>

\* _Call._handle_OK, lines 132-136: ANSWERED, connect the media, ACK.
handle_OK_answer ==
    /\ pc["disp"] = "ok_answer"
    /\ state' = [state EXCEPT ![c_of("disp")] = "ANSWERED"]
    /\ log' = Logged(c_of("disp"), <<"media_connect", "send_ack">>)
    /\ Finish("disp", "none")
    /\ UNCHANGED <<call_id, stop_reason, auth_sent, phoneVars, callerVars, nevents>>

\* _Call._handle_OK, line 138: 200 OK (BYE) while ANSWERED.
handle_OK_ended ==
    /\ pc["disp"] = "ok_ended"
    /\ state' = [state EXCEPT ![c_of("disp")] = "ENDED"]
    /\ Finish("disp", "none")
    /\ UNCHANGED <<call_id, stop_reason, auth_sent, log, phoneVars, callerVars,
                   nevents>>

\* may_retry_auth without the attempt flag: every challenge is answered.
may_retry_auth_always(sent) == TRUE

\* _Call._handle_unauthorized, line 104: `if not call_data.get('auth_sent')`.
may_retry_auth(sent) == ~sent

\* _Call._handle_unauthorized: ACK and a second INVITE once, then raise.
handle_unauthorized ==
    /\ pc["disp"] = "route"
    /\ ev.type = "RESPONSE"
    /\ ev.what \in {"UNAUTHORIZED", "PROXY_AUTHENTICATION_REQUIRED"}
    /\ IF may_retry_auth(auth_sent[c_of("disp")])
       THEN /\ log' = Logged(c_of("disp"),
                             <<"on_unauthorized", "send_ack", "send_invite">>)
            /\ auth_sent' = [auth_sent EXCEPT ![c_of("disp")] = TRUE]
            /\ Finish("disp", "none")
       ELSE /\ Finish("disp", "AuthenticationFailedError")
            /\ log' = Logged(c_of("disp"), <<"on_unauthorized">>)
            /\ UNCHANGED auth_sent
    /\ UNCHANGED <<call_id, state, stop_reason, phoneVars, callerVars, nevents>>

\* _Call._handle_not_found: SIP_ERROR, ACK, then _stop().
handle_not_found ==
    /\ pc["disp"] = "route"
    /\ ev.type = "RESPONSE" /\ ev.what = "NOT_FOUND"
    /\ stop_reason' = [stop_reason EXCEPT ![c_of("disp")] = "SIP_ERROR"]
    /\ log' = Logged(c_of("disp"), <<"on_not_found", "send_ack">>)
    /\ Goto("disp", "stop_s1")
    /\ UNCHANGED <<call_id, state, auth_sent, phoneVars, callerVars, nevents>>

\* _Call._handle_unavailable: SIP_ERROR, ACK, then _stop().
handle_unavailable ==
    /\ pc["disp"] = "route"
    /\ ev.type = "RESPONSE" /\ ev.what = "SERVICE_UNAVAILABLE"
    /\ stop_reason' = [stop_reason EXCEPT ![c_of("disp")] = "SIP_ERROR"]
    /\ log' = Logged(c_of("disp"), <<"on_unavailable", "send_ack">>)
    /\ Goto("disp", "stop_s1")
    /\ UNCHANGED <<call_id, state, auth_sent, phoneVars, callerVars, nevents>>

\* _Call._handle_bye: OK to the PBX, BYE_FROM_PBX, then _stop().
handle_bye ==
    /\ pc["disp"] = "route"
    /\ ev.type = "MESSAGE" /\ ev.what = "BYE"
    /\ stop_reason' = [stop_reason EXCEPT ![c_of("disp")] = "BYE_FROM_PBX"]
    /\ log' = Logged(c_of("disp"), <<"on_bye", "send_ok">>)
    /\ Goto("disp", "stop_s1")
    /\ UNCHANGED <<call_id, state, auth_sent, phoneVars, callerVars, nevents>>

\* _Call.send_audio / send_dtmf / listen: start of _check_leg_A_answered.
media_op ==
    /\ \E c \in 1..ncalls, m \in MediaOps : Begin(m, c, "leg_wait")
    /\ UNCHANGED <<callVars, phoneVars, todo, nevents>>

\* leg_answered that also accepts a call the PBX has only acknowledged.
leg_answered_started(s) == s \in {"TRYING", "ANSWERED"}

\* _Call._check_leg_A_answered, line 94: the condition try_wait polls.
leg_answered(s) == s = "ANSWERED"

\* _Call._check_leg_A_answered: a poll sees state == ANSWERED.
check_leg_A_answered ==
    /\ pc["caller"] = "leg_wait"
    /\ leg_answered(state[c_of("caller")])
    /\ Goto("caller", "media_call")
    /\ UNCHANGED <<callVars, phoneVars, callerVars, nevents>>

\* _Call._check_leg_A_answered: the wait expires, try_wait raises.
check_leg_A_timeout ==
    /\ pc["caller"] = "leg_wait"
    /\ try_wait_expired("caller", leg_answered(state[c_of("caller")]))
    /\ Finish("caller", "NotAnsweredError")
    /\ UNCHANGED <<callVars, phoneVars, callerVars, nevents>>

\* _Call.send_audio / send_dtmf / listen: the call into the media wrapper.
media_call ==
    /\ pc["caller"] = "media_call"
    /\ log' = Logged(c_of("caller"), <<op>>)
    /\ Finish("caller", "none")
    /\ UNCHANGED <<call_id, state, stop_reason, auth_sent, phoneVars, callerVars,
                   nevents>>

\* _Call._hangup() invoked on the call itself.
call_hangup ==
    /\ \E c \in 1..ncalls : Begin("call_hangup", c, "hangup_h1")
    /\ UNCHANGED <<callVars, phoneVars, todo, nevents>>

\* =================================================================== Phone
\* The Call-ID sip_manager.send_invite puts in the INVITE it returns: a fresh one.
new_call_id(c) == c

RECURSIVE keys_from(_, _)
keys_from(reg, i) ==
    IF i > MaxCalls THEN <<>>
    ELSE IF reg[i] # NoCall THEN <<i>> \o keys_from(reg, i + 1)
    ELSE keys_from(reg, i + 1)

\* list(self.calls.keys()): the dict keeps insertion order, which is the order
\* in which Phone.call stored the calls.
keys(reg) == keys_from(reg, 1)

\* The signaling receiver hands the next message to Phone._callback, whose
\* try_wait(lambda: self.calls[Call-ID], wait_time=2) polls at once: the call is
\* there, or the wait begins.
callback_receive ==
    /\ pc["disp"] = "idle"
    /\ nevents < MaxEvents
    /\ \E m \in SIPMessage :
         /\ ev' = m
         /\ IF calls[m.id] # NoCall
            THEN /\ pc' = [pc EXCEPT !["disp"] = "route"]
                 /\ cur' = [cur EXCEPT !["disp"] = calls[m.id]]
            ELSE /\ pc' = [pc EXCEPT !["disp"] = "lookup"]
                 /\ cur' = cur
    /\ nevents' = nevents + 1
    /\ err' = [err EXCEPT !["disp"] = "none"]
    /\ UNCHANGED <<callVars, phoneVars, callerVars, elapsed>>

\* Phone._callback, lines 66-71: a later poll finds the Call-ID in self.calls
\* (elapsed keeps the time waited until the handler is entered).
callback_lookup ==
    /\ pc["disp"] = "lookup"
    /\ calls[ev.id] # NoCall
    /\ cur' = [cur EXCEPT !["disp"] = calls[ev.id]]
    /\ pc' = [pc EXCEPT !["disp"] = "route"]
    /\ UNCHANGED <<callVars, phoneVars, callerVars, elapsed, err, ev, nevents>>

\* callback_lookup_timeout without the wait: self.calls[Call-ID] looked up once,
\* the KeyError surfacing at once.
callback_lookup_nowait ==
    /\ pc["disp"] = "lookup"
    /\ calls[ev.id] = NoCall
    /\ Finish("disp", "UnknownCallError")
    /\ UNCHANGED <<callVars, phoneVars, callerVars, nevents>>

\* Phone._callback, lines 66-71: the Call-ID did not appear within wait_time.
callback_lookup_timeout ==
    /\ pc["disp"] = "lookup"
    /\ try_wait_expired("disp", calls[ev.id] # NoCall)
    /\ Finish("disp", "UnknownCallError")
    /\ UNCHANGED <<callVars, phoneVars, callerVars, nevents>>

\* Phone._callback, lines 72-92: whether the if/elif chain has a handler.
has_route(m) ==
    \/ m.type = "MESSAGE" /\ m.what = "BYE"
    \/ m.type = "RESPONSE"
       /\ m.what \in {"TRYING", "OK", "NOT_FOUND", "SERVICE_UNAVAILABLE",
                      "UNAUTHORIZED", "PROXY_AUTHENTICATION_REQUIRED"}

\* callback_unknown with a catch-all that also gives the call up.
callback_unknown_ends ==
    /\ pc["disp"] = "route"
    /\ ~has_route(ev)
    /\ state' = [state EXCEPT ![c_of("disp")] = "ENDED"]
    /\ Finish("disp", "UnhandledEventError")
    /\ UNCHANGED <<call_id, stop_reason, auth_sent, log, phoneVars, callerVars, nevents>>

\* Phone._callback, lines 76 and 92: raise RuntimeError('Unknown ...').
callback_unknown ==
    /\ pc["disp"] = "route"
    /\ ~has_route(ev)
    /\ Finish("disp", "UnhandledEventError")
    /\ UNCHANGED <<callVars, phoneVars, callerVars, nevents>>

\* Phone.start, line 100.
start ==
    /\ Begin("start", NoCall, "start_reg")
    /\ status' = "REGISTERING"
    /\ UNCHANGED <<callVars, calls, ncalls, todo, nevents>>

\* Phone.start, lines 101-103.
start_registered ==
    /\ pc["caller"] = "start_reg"
    /\ status' = "REGISTERED"
    /\ Finish("caller", "none")
    /\ UNCHANGED <<callVars, calls, ncalls, callerVars, nevents>>

\* Phone.call, lines 110-115: a new _Call, whose _new_call sends the INVITE and
\* stores the Call-ID of the request.
call ==
    /\ ncalls < MaxCalls
    /\ LET c == ncalls + 1 IN
         /\ Begin("call", c, "call_reg")
         /\ ncalls' = c
         /\ call_id' = [call_id EXCEPT ![c] = new_call_id(c)]
         /\ log' = Logged(c, <<"send_invite">>)
    /\ UNCHANGED <<state, stop_reason, auth_sent, calls, status, todo, nevents>>

\* Phone.call, line 116: self.calls[call_id] = new_call.
register(reg, id, c) == [reg EXCEPT ![id] = c]

call_register ==
    /\ pc["caller"] = "call_reg"
    /\ calls' = register(calls, call_id[c_of("caller")], c_of("caller"))
    /\ Finish("caller", "none")
    /\ UNCHANGED <<callVars, status, ncalls, callerVars, nevents>>

\* Phone.hangup(call): _stop_call(call.call_data['call_id']).
hangup ==
    /\ \E c \in 1..ncalls :
         /\ Begin("hangup", c, "stop_call")
         /\ todo' = <<call_id[c]>>
    /\ UNCHANGED <<callVars, phoneVars, nevents>>

\* Phone.stop, lines 121-122: snapshot of the registry's keys.
stop ==
    /\ Begin("stop", NoCall, IF keys(calls) = <<>> THEN "dereg" ELSE "stop_call")
    /\ todo' = keys(calls)
    /\ UNCHANGED <<callVars, phoneVars, nevents>>

\* Where Phone.hangup / Phone.stop continue after one _stop_call.
AfterStopCall(rest) ==
    IF op = "hangup" THEN "idle"
    ELSE IF rest = <<>> THEN "dereg" ELSE "stop_call"

Continue(rest) ==
    IF AfterStopCall(rest) = "idle"
    THEN Finish("caller", "none")
    ELSE Goto("caller", AfterStopCall(rest))

\* Phone._stop_call, lines 130-131: `if call := self.calls.get(call_id)`.
stop_call ==
    /\ pc["caller"] = "stop_call"
    /\ IF calls[Head(todo)] # NoCall
       THEN /\ cur' = [cur EXCEPT !["caller"] = calls[Head(todo)]]
            /\ pc' = [pc EXCEPT !["caller"] = "hangup_h1"]
            /\ UNCHANGED <<todo, err, ev, elapsed>>
       ELSE /\ todo' = Tail(todo)
            /\ Continue(Tail(todo))
    /\ UNCHANGED <<callVars, phoneVars, op, nops, nevents>>

\* del_call that leaves the registry as it is.
del_call_keep(reg, id) == reg

\* Phone._del_call: self.calls.pop(call_id).
del_call(reg, id) == [reg EXCEPT ![id] = NoCall]

\* Phone._stop_call, line 132, after call._hangup() returned.
stop_call_del ==
    /\ pc["caller"] = "del"
    /\ calls' = del_call(calls, Head(todo))
    /\ todo' = Tail(todo)
    /\ Continue(Tail(todo))
    /\ UNCHANGED <<callVars, status, ncalls, op, nops, nevents>>

\* Phone.stop, line 124.
stop_deregister ==
    /\ pc["caller"] = "dereg"
    /\ status' = "DEREGISTER"
    /\ Goto("caller", "dereg2")
    /\ UNCHANGED <<callVars, calls, ncalls, callerVars, nevents>>

\* Phone.stop, lines 125-126.
stop_inactive ==
    /\ pc["caller"] = "dereg2"
    /\ status' = "INACTIVE"
    /\ Finish("caller", "none")
    /\ UNCHANGED <<callVars, calls, ncalls, callerVars, nevents>>

\* ==================================================================== Next
Next ==
    \/ Tick
    \/ callback_receive
    \/ callback_lookup
    \/ callback_lookup_timeout
    \/ callback_unknown
    \/ handle_trying
    \/ handle_OK
    \/ handle_OK_answer
    \/ handle_OK_ended
    \/ handle_unauthorized
    \/ handle_not_found
    \/ handle_unavailable
    \/ handle_bye
    \/ start
    \/ start_registered
    \/ call
    \/ call_register
    \/ hangup
    \/ call_hangup
    \/ stop
    \/ stop_call
    \/ stop_call_del
    \/ stop_deregister
    \/ stop_inactive
    \/ media_op
    \/ check_leg_A_answered
    \/ check_leg_A_timeout
    \/ media_call
    \/ \E t \in Threads : hangup_check_state(t)
    \/ \E t \in Threads : hangup_set_reason(t)
    \/ \E t \in Threads : stop_check_state(t)
    \/ \E t \in Threads : stop_check_reason(t)
    \/ \E t \in Threads : stop_by_pbx(t)
    \/ \E t \in Threads : stop_send_bye(t)
    \/ \E t \in Threads : stop_wait_ended(t)
    \/ \E t \in Threads : stop_wait_timeout(t)
    \/ \E t \in Threads : stop_after_bye(t)

Spec == Init /\ [][Next]_vars

\* Phone.call when sip_manager.send_invite returns a request whose Call-ID is not
\* fresh: _parse_invite stores whatever Call-ID the request carries.
call_any_id ==
    /\ ncalls < MaxCalls
    /\ LET c == ncalls + 1 IN
         /\ Begin("call", c, "call_reg")
         /\ ncalls' = c
         /\ \E id \in CallIds \ {new_call_id(c)} :
                call_id' = [call_id EXCEPT ![c] = id]
         /\ log' = Logged(c, <<"send_invite">>)
    /\ UNCHANGED <<state, stop_reason, auth_sent, calls, status, todo, nevents>>

NextAnyId == Next \/ call_any_id

\* The program with a signaling layer that may hand out any Call-ID.
SpecAnyId == Init /\ [][NextAnyId]_vars

\* Thread t, inside an operation, takes its next step: both threads are scheduled
\* by the interpreter, and the clock of try_wait advances.
ThreadStep(t) == Next /\ pc[t] # "idle" /\ pc'[t] # pc[t]

\* The test code places at most MaxFairCalls calls and starts at most MaxFairOps
\* operations.
NextFair == Next /\ ncalls' <= MaxFairCalls /\ nops' <= MaxFairOps

FairSpec ==
    /\ Init /\ [][NextFair]_vars
    /\ WF_vars(Tick)
    /\ \A t \in Threads : WF_vars(ThreadStep(t))

TypeOK ==
    /\ state \in [Calls -> CallState]
    /\ stop_reason \in [Calls -> CallStopReason]
    /\ status \in PhoneStatus
    /\ \A t \in Threads : cur[t] \in Calls \cup {NoCall}

\* ================================================================== claims
\* C1: every change of a call's state is one of Dialing->Trying,
\* Trying->Answered, Answered->Ended, Dialing->Ended or Trying->Ended, where "NONE",
\* the state a call has before any event is handled, counts as Dialing.
AllowedTransitions ==
    {<<"NONE", "TRYING">>, <<"TRYING", "ANSWERED">>, <<"ANSWERED", "ENDED">>,
     <<"NONE", "ENDED">>, <<"TRYING", "ENDED">>}

C1_OnlyAllowedTransitions ==
    [][\A c \in Calls :
         state'[c] # state[c] => <<state[c], state'[c]>> \in AllowedTransitions]_vars

\* The positions of a thread inside _Call._hangup and the _stop it calls.
HangupPcs == {"hangup_h1", "hangup_h2", "stop_s1", "stop_s2", "stop_s3",
              "stop_pbx", "stop_wait", "stop_after"}

\* The caller takes a step of _hangup on call c, invoked on the call itself or by
\* Phone.hangup(call).
HangupStep(c) ==
    /\ op \in {"hangup", "call_hangup"}
    /\ cur["caller"] = c
    /\ pc["caller"] \in HangupPcs
    /\ pc'["caller"] # pc["caller"]

\* C2: hangup() is idempotent: once a hangup() of a call has returned, a second
\* hangup() of that call changes neither its state nor its stop reason and sends
\* no teardown request (BYE).
C2_SecondHangupIsNoOp ==
    [][\A c \in Calls :
         HangupStep(c) /\ Count(c, "hangup_ret") >= 1
         => /\ state'[c] = state[c]
            /\ stop_reason'[c] = stop_reason[c]
            /\ ~Adds(c, "send_bye")]_vars

\* Phone._callback hands the message in `ev` to _Call._handle_OK.
OnSuccessStep ==
    /\ pc["disp"] = "route"
    /\ ev.type = "RESPONSE" /\ ev.what = "OK"
    /\ pc'["disp"] # "route"

OnUnauthorizedStep ==
    /\ pc["disp"] = "route"
    /\ ev.type = "RESPONSE"
    /\ ev.what \in {"UNAUTHORIZED", "PROXY_AUTHENTICATION_REQUIRED"}
    /\ pc'["disp"] # "route"

\* C4: authentication is retried exactly once per call: the first unauthorized
\* (401 or 407) response of a call sends one ACK and one more INVITE and sets
\* auth_sent; any later one fails with AuthenticationFailedError and sends no
\* INVITE; a call never sends more than two INVITEs.
C4_AuthRetriedOnce ==
    [][/\ \A c \in Calls : log'[c]["send_invite"] <= 2
       /\ OnUnauthorizedStep =>
            LET c == cur["disp"] IN
              IF Count(c, "on_unauthorized") = 0
              THEN /\ err'["disp"] = "none"
                   /\ log'[c]["send_ack"] = log[c]["send_ack"] + 1
                   /\ log'[c]["send_invite"] = log[c]["send_invite"] + 1
                   /\ auth_sent'[c]
              ELSE /\ err'["disp"] = "AuthenticationFailedError"
                   /\ log'[c]["send_invite"] = log[c]["send_invite"]
                   /\ log'[c]["send_ack"] = log[c]["send_ack"]]_vars

\* A call was challenged twice: two INVITEs went out and the second challenge failed.
C4_Witness ==
    \E c \in Calls :
      /\ Count(c, "on_unauthorized") = 2
      /\ Count(c, "send_invite") = 2
      /\ auth_sent[c]
      /\ err["disp"] = "AuthenticationFailedError"

\* C5: dispatch tolerates the registration race: a message whose Call-ID is not in
\* the registry when it arrives waits in the lookup; once Phone.call has stored the
\* call, the lookup resolves it and the message goes to its handler; the lookup
\* fails, with UnknownCallError and without touching any call, only while the
\* Call-ID is absent and only when the whole LookupWait has passed.
C5_LookupRace ==
    [][pc["disp"] = "lookup" /\ pc'["disp"] # "lookup"
       => IF calls[ev.id] # NoCall
          THEN /\ pc'["disp"] = "route"
               /\ cur'["disp"] = calls[ev.id]
               /\ ev' = ev
          ELSE /\ elapsed["disp"] >= LookupWait
               /\ pc'["disp"] = "idle"
               /\ err'["disp"] = "UnknownCallError"
               /\ UNCHANGED callVars]_vars

\* A message that had to wait for Phone.call to store its call is now routed.
C5_Witness ==
    /\ pc["disp"] = "route"
    /\ elapsed["disp"] >= 1
    /\ cur["disp"] # NoCall
    /\ calls[ev.id] = cur["disp"]

\* The handlers of call c were given exactly this many messages of each kind, and
\* no 200 OK was dropped with a warning or an exception.
Handled(c, trying, ok_invite, ok_bye, bye, errors) ==
    /\ Count(c, "on_trying") = trying
    /\ Count(c, "on_ok_invite") = ok_invite
    /\ Count(c, "on_ok_bye") = ok_bye
    /\ Count(c, "on_bye") = bye
    /\ Count(c, "on_not_found") + Count(c, "on_unavailable") = errors
    /\ Count(c, "on_ok_other") = 0
    /\ Count(c, "on_unauthorized") = 0
    /\ Count(c, "ok_repeat") = 0
    /\ Count(c, "ok_raise") = 0

\* Phone.hangup(call) for call c returns or raises in this step.
PhoneHangupEnds(c) ==
    /\ op = "hangup"
    /\ cur["caller"] = c
    /\ pc["caller"] # "idle"
    /\ pc'["caller"] = "idle"

\* C6: end-to-end local teardown: when the test code did nothing but place one
\* call and hang it up, and the call's only messages were one 100 Trying, one
\* 200 OK (INVITE) and, dispatched before Phone.hangup(call) ends, one 200 OK (BYE)
\* answering the BYE the hangup sent, Phone.hangup(call) returns
\* without error with the call's state ENDED, its stop reason BYE_FROM_LOCAL and its
\* Call-ID no longer in the registry.
C6_LocalTeardown ==
    [][\A c \in Calls :
         /\ PhoneHangupEnds(c)
         /\ ncalls = 1 /\ nops = 2
         /\ Handled(c, 1, 1, 1, 0, 0)
         /\ pc["disp"] = "idle"
         /\ Count(c, "send_bye") = 1
         => /\ err'["caller"] = "none"
            /\ state'[c] = "ENDED"
            /\ stop_reason'[c] = "BYE_FROM_LOCAL"
            /\ calls'[call_id[c]] = NoCall]_vars

\* Phone.hangup(call) has returned after the BYE / 200 OK (BYE) exchange.
C6_Witness ==
    /\ op = "hangup" /\ pc["caller"] = "idle" /\ err["caller"] = "none"
    /\ cur["caller"] = 1
    /\ ncalls = 1 /\ nops = 2
    /\ Handled(1, 1, 1, 1, 0, 0)
    /\ Count(1, "send_bye") = 1
    /\ Count(1, "media_connect") = 1
    /\ Count(1, "media_stop") = 1
    /\ state[1] = "ENDED"
    /\ stop_reason[1] = "BYE_FROM_LOCAL"
    /\ calls[call_id[1]] = NoCall

\* The handler of a 404 or 503 for call c returns or raises in this step.
ErrorResponseEnds(c) ==
    /\ cur["disp"] = c
    /\ ev.type = "RESPONSE"
    /\ ev.what \in {"NOT_FOUND", "SERVICE_UNAVAILABLE"}
    /\ pc["disp"] # "idle"
    /\ pc'["disp"] = "idle"

NoSuccessYet(c) ==
    Count(c, "on_ok_invite") + Count(c, "on_ok_bye") + Count(c, "on_ok_other") = 0

\* C7: error-response teardown: when the test code has only placed calls and a 404
\* or 503 is dispatched for a call that was given no 200 OK, the handler returns
\* without error leaving the call's state ENDED and its stop reason SIP_ERROR, the
\* media never having been connected for that call.
C7_ErrorResponseTeardown ==
    [][\A c \in Calls :
         ErrorResponseEnds(c) /\ NoSuccessYet(c) /\ nops = ncalls
         => /\ err'["disp"] = "none"
            /\ state'[c] = "ENDED"
            /\ stop_reason'[c] = "SIP_ERROR"
            /\ log'[c]["media_connect"] = 0]_vars

\* C8: send_audio, send_dtmf and listen reach the media wrapper only from the wait
\* of _check_leg_A_answered and only on a poll that saw state == ANSWERED; the wait
\* is left otherwise only after AnsweredWait with the state still not ANSWERED
\* (ENDED included), by NotAnsweredError and without any media operation.
C8_MediaOnlyWhenAnswered ==
    [][/\ \A c \in Calls : \A m \in MediaOps :
            Adds(c, m) => /\ pc["caller"] = "media_call"
                          /\ cur["caller"] = c
                          /\ op = m
       /\ (pc["caller"] # "media_call" /\ pc'["caller"] = "media_call")
            => /\ pc["caller"] = "leg_wait"
               /\ op \in MediaOps
               /\ state[cur["caller"]] = "ANSWERED"
       /\ (pc["caller"] = "leg_wait" /\ pc'["caller"] \notin {"leg_wait", "media_call"})
            => /\ pc'["caller"] = "idle"
               /\ err'["caller"] = "NotAnsweredError"
               /\ elapsed["caller"] >= AnsweredWait
               /\ state[cur["caller"]] # "ANSWERED"
               /\ log' = log]_vars

\* One media operation ran on the answered call, the next one failed on the ended
\* call without reaching the media wrapper.
C8_Witness ==
    /\ op = "send_audio" /\ pc["caller"] = "idle"
    /\ err["caller"] = "NotAnsweredError"
    /\ cur["caller"] = 1
    /\ state[1] = "ENDED"
    /\ Count(1, "listen") = 1
    /\ Count(1, "send_audio") = 0

\* Phone.stop() returns or raises in this step.
PhoneStopEnds ==
    /\ op = "stop"
    /\ pc["caller"] # "idle"
    /\ pc'["caller"] = "idle"

\* The PBX sent nothing but 100 Trying and 200 OK for INVITE and BYE, none of
\* them dropped, and one 200 OK (BYE) for each BYE sent.
ByeAcknowledged ==
    \A c \in Calls :
        /\ Handled(c, Count(c, "on_trying"), Count(c, "on_ok_invite"),
                    Count(c, "on_ok_bye"), 0, 0)
        /\ Count(c, "on_ok_bye") = Count(c, "send_bye")

\* C9: Phone.stop(), whatever the status and the registered calls, when the PBX
\* only answers, and acknowledges every BYE, ends without error with status
\* INACTIVE and an empty registry.
C9_StopFinishesInactive ==
    [][PhoneStopEnds /\ ByeAcknowledged /\ pc["disp"] = "idle"
         => /\ err'["caller"] = "none"
            /\ status' = "INACTIVE"
            /\ \A i \in CallIds : calls'[i] = NoCall]_vars

\* C10: a Call-ID leaves the registry only while its call's state is ENDED.
C10_RemovedOnlyWhenEnded ==
    [][\A i \in CallIds :
         calls[i] # NoCall /\ calls'[i] = NoCall => state[calls[i]] = "ENDED"]_vars

\* Phone.call stores the new call in self.calls in this step.
RegisterStep ==
    /\ pc["caller"] = "call_reg"
    /\ pc'["caller"] # "call_reg"

\* C11: storing a call under a Call-ID that is already a key of self.calls fails
\* with DuplicateCallError and changes nothing, and no key of self.calls is ever
\* given to another call.
C11_DuplicateIdRejected ==
    [][/\ RegisterStep /\ calls[call_id[cur["caller"]]] # NoCall
          => err'["caller"] = "DuplicateCallError" /\ calls' = calls
       /\ \A i \in CallIds :
            calls[i] # NoCall => calls'[i] \in {calls[i], NoCall}]_vars

\* C12: under fair scheduling and an advancing clock every started operation (a
\* dispatch on the receiver thread, an operation of the test code) returns or
\* raises: no thread stays inside an operation for ever.
C12_OperationsTerminate ==
    \A t \in Threads : (pc[t] # "idle") ~> (pc[t] = "idle")

\* A handler that sent a BYE from the receiver thread waited for a 200 OK (BYE)
\* that only the receiver thread could have dispatched, and gave up.
C12_Witness ==
    /\ pc["disp"] = "idle"
    /\ err["disp"] = "TeardownTimeoutError"
    /\ \E c \in Calls : Count(c, "send_bye") = 1 /\ Count(c, "hangup_ret") = 0
                        /\ Count(c, "on_not_found") = 1

\* _Call._handle_trying runs in this step.
OnTryingStep ==
    /\ pc["disp"] = "route"
    /\ ev.type = "RESPONSE" /\ ev.what = "TRYING"
    /\ pc'["disp"] # "route"

\* C13: a 100 Trying sets the state to TRYING only from Dialing; handled in TRYING,
\* ANSWERED or ENDED it leaves the state as it is.
C13_TryingIdempotent ==
    [][OnTryingStep =>
         LET c == cur["disp"] IN
           state'[c] = IF state[c] = "NONE" THEN "TRYING" ELSE state[c]]_vars

\* C14: a stop reason, once SIP_ERROR, BYE_FROM_PBX or BYE_FROM_LOCAL, never
\* changes.
C14_StopReasonWrittenOnce ==
    [][\A c \in Calls :
         stop_reason[c] # "UNSET" => stop_reason'[c] = stop_reason[c]]_vars

\* C15: media_wrapper.stop() is invoked at most once per call.
C15_MediaStoppedOnce == \A c \in Calls : Count(c, "media_stop") <= 1

\* _Call._handle_OK reads the state for a 200 OK (BYE) of call c in this step,
\* while _hangup, having sent the BYE, waits for ENDED on the caller's thread.
ByeAnsweredStep(c) ==
    /\ OnSuccessStep /\ ev.cseq = "BYE"
    /\ cur["disp"] = c
    /\ op \in {"hangup", "call_hangup"}
    /\ cur["caller"] = c /\ pc["caller"] = "stop_wait"
    /\ state[c] # "ENDED"

\* C16: locally initiated teardown from TRYING or ANSWERED: the 200 OK (BYE)
\* dispatched while _hangup waits after its one BYE ends the call, from either
\* state.
C16_ByeAnswerEndsCall ==
    [][\A c \in Calls :
         ByeAnsweredStep(c) => Count(c, "send_bye") = 1 /\ pc'["disp"] = "ok_ended"]_vars

\* The handler of a BYE from the PBX for call c returns or raises in this step.
RemoteByeEnds(c) ==
    /\ cur["disp"] = c
    /\ ev.type = "MESSAGE" /\ ev.what = "BYE"
    /\ pc["disp"] # "idle"
    /\ pc'["disp"] = "idle"

\* C17: remote teardown: when the test code has only placed calls and the first
\* BYE from the PBX is dispatched for a call that is not ENDED and for which no BYE
\* was sent, the handler returns without error having sent its OK, with stop
\* reason BYE_FROM_PBX, the media stopped once, the state ENDED and no BYE sent.
C17_RemoteTeardown ==
    [][\A c \in Calls :
         /\ RemoteByeEnds(c) /\ nops = ncalls
         /\ Count(c, "on_bye") = 1 /\ Count(c, "send_bye") = 0
         /\ state[c] \in {"NONE", "TRYING", "ANSWERED"}
         => /\ err'["disp"] = "none"
            /\ state'[c] = "ENDED"
            /\ stop_reason'[c] = "BYE_FROM_PBX"
            /\ log'[c]["send_ok"] = 1
            /\ log'[c]["media_stop"] = 1
            /\ log'[c]["send_bye"] = 0]_vars

\* The fields of call c, and what was done for it.
Record(c) == <<call_id[c], state[c], stop_reason[c], auth_sent[c], log[c]>>

\* The receiver thread takes a step.
DispatchStep == pc'["disp"] # pc["disp"]

\* C18: a message without a route (a request other than BYE, a response with a
\* status no handler exists for) raises UnhandledEventError and changes neither
\* the registry nor any call; and no step of a dispatch changes the registry or a
\* call other than the one the message's Call-ID resolved to.
C18_DispatchConfined ==
    [][/\ (pc["disp"] = "route" /\ ~has_route(ev) /\ DispatchStep)
          => /\ pc'["disp"] = "idle"
             /\ err'["disp"] = "UnhandledEventError"
             /\ calls' = calls
             /\ \A c \in Calls : Record(c)' = Record(c)
       /\ DispatchStep
          => /\ calls' = calls
             /\ \A c \in Calls : c # cur["disp"] => Record(c)' = Record(c)
             /\ cur["disp"] # NoCall => call_id[cur["disp"]] = ev.id]_vars

\* With two calls registered, the second one in TRYING, the last message
\* dispatched was one without a route for the first call.
C18_Witness ==
    /\ err["disp"] = "UnhandledEventError"
    /\ pc["disp"] = "idle"
    /\ ncalls = 2
    /\ calls[1] = 1 /\ calls[2] = 2
    /\ state[1] = "NONE"
    /\ state[2] = "TRYING"
    /\ nevents = 2

\* C19: the media is connected at most once per call, and a 200 OK whose CSeq
\* method is BYE, handled for a call for which a BYE was sent, is not taken for the
\* answer that connects the media.
C19_MediaConnectedOnce ==
    [][/\ \A c \in Calls : Adds(c, "media_connect") => Count(c, "media_connect") = 0
       /\ (OnSuccessStep /\ ev.cseq = "BYE" /\ Count(cur["disp"], "send_bye") >= 1)
            => pc'["disp"] # "ok_answer"]_vars

\* C20: at most one BYE is sent per call.
C20_OneByePerCall == \A c \in Calls : Count(c, "send_bye") <= 1

====
